---- MODULE Spec2Model ----
(***************************************************************************)
(* Model of the cross-chain bridge listener of src/script.py: the          *)
(* EventScanner cursor, the TransactionRelayer nonce bookkeeping, the      *)
(* compliance client and the BridgeOrchestrator poll loop.                 *)
(***************************************************************************)
EXTENDS Integers, Sequences, FiniteSets

(* ----------------------------- bounds ---------------------------------- *)
\* highest block number the source node ever reports
MaxBlock == 8
\* most entries one event query returns
MaxBatch == 2
\* the per-nonce submission counters saturate here
MaxCount == 2

(* ------------------------- program constants --------------------------- *)
BLOCK_CONFIRMATIONS == 6

(* ------------------------- Python values ------------------------------- *)
\* None, int and str values
PyNone == [t |-> "none"]
PyInt(n) == [t |-> "int", n |-> n]
PyStr(s) == [t |-> "str", s |-> s]

\* bool(v) as `not v` and all([...]) see it
Truthy(v) ==
  CASE v.t = "none" -> FALSE
    [] v.t = "int" -> v.n # 0
    [] v.t = "str" -> v.s # ""

\* the hardcoded address of the mock sanctions list
SANCTIONED_ADDRESS == "0x000000000000000000000000000000000000dEaD"

(* ------------------------- event inputs -------------------------------- *)
\* the denylisted address in lower case, an address not on the list, and a
\* recipient
DeadLowerCase == "0x000000000000000000000000000000000000dead"
GoodSender == "0x1111111111111111111111111111111111111111"
Recipient == "0x2222222222222222222222222222222222222222"

Repeat(c, n) == [i \in 1..n |-> c]

\* the characters of the strings above
Chars(s) ==
  CASE s = SANCTIONED_ADDRESS -> <<"0", "x">> \o Repeat("0", 36) \o <<"d", "E", "a", "D">>
    [] s = DeadLowerCase -> <<"0", "x">> \o Repeat("0", 36) \o <<"d", "e", "a", "d">>
    [] s = GoodSender -> <<"0", "x">> \o Repeat("1", 40)
    [] s = Recipient -> <<"0", "x">> \o Repeat("2", 40)
    [] s = "" -> <<>>

UpperChars ==
  <<"A","B","C","D","E","F","G","H","I","J","K","L","M",
    "N","O","P","Q","R","S","T","U","V","W","X","Y","Z">>
LowerChars ==
  <<"a","b","c","d","e","f","g","h","i","j","k","l","m",
    "n","o","p","q","r","s","t","u","v","w","x","y","z">>

\* the lower-case letter of each upper-case one
LowerOfUpper ==
  [c \in {UpperChars[i] : i \in DOMAIN UpperChars} |->
     LowerChars[CHOOSE i \in DOMAIN UpperChars : UpperChars[i] = c]]

LowerChar(c) == IF c \in DOMAIN LowerOfUpper THEN LowerOfUpper[c] ELSE c

\* the characters cs, each letter in lower case
LowerSeq(cs) == [i \in DOMAIN cs |-> LowerChar(cs[i])]

\* str.lower(), as the characters of the result
Lower(s) == LowerSeq(Chars(s))

NonceValues == {7, 12}

Args(nonce, sender, recipient, amount) ==
  [nonce |-> nonce, sender |-> sender, recipient |-> recipient, amount |-> amount]

\* the decoded DepositMade arguments the source node may report: deposits
\* that pass every check, deposits of an absent or denylisted sender,
\* deposits that lack the recipient or the amount, one without a nonce, and
\* one whose sender is an int instead of a str
ArgsSet ==
  {Args(PyInt(n), PyStr(GoodSender), PyStr(Recipient), PyInt(5)) : n \in NonceValues}
    \cup {Args(PyInt(7), s, PyStr(Recipient), PyInt(5)) :
            s \in {PyNone, PyStr(SANCTIONED_ADDRESS)}}
    \cup {Args(PyInt(7), PyInt(1), PyStr(Recipient), PyInt(5)),
          Args(PyInt(12), PyStr(GoodSender), PyNone, PyInt(5)),
          Args(PyInt(12), PyStr(GoodSender), PyStr(Recipient), PyInt(0)),
          Args(PyInt(12), PyStr(DeadLowerCase), PyNone, PyInt(0)),
          Args(PyNone, PyStr(GoodSender), PyStr(Recipient), PyInt(5))}

\* what an event query can return: at most MaxBatch decoded logs of the
\* blocks lo..hi, in ascending block order
Entries(lo, hi) ==
  UNION {{q \in [1..k -> [args : ArgsSet, blockNumber : lo..hi]] :
            \A i \in 1..k, j \in 1..k : i < j => q[i].blockNumber <= q[j].blockNumber}
         : k \in 0..MaxBatch}

\* replies of the source node to the filter query
QueryReplies(lo, hi) ==
  {[t |-> "entries", entries |-> q] : q \in Entries(lo, hi)}
    \cup {[t |-> "BlockNotFound"], [t |-> "Exception"]}

\* replies of the source node to eth.block_number
RpcReplies ==
  {[t |-> "disconnected"], [t |-> "error"]}
    \cup {[t |-> "block", n |-> b] : b \in 0..MaxBlock}

\* replies of the compliance endpoint to requests.post
ApiReplies ==
  {[t |-> "response", status |-> 200], [t |-> "response", status |-> 304],
   [t |-> "response", status |-> 503],
   [t |-> "timeout"], [t |-> "connection_error"]}

(* ------------------------- BlockchainConnector ------------------------- *)
\* get_contract: None (FALSE) without a live connection
get_contract(web3, connected) == web3 /\ connected

get_latest_block_number(web3, rpc) ==
  IF ~web3 \/ rpc.t = "disconnected" THEN PyNone
  ELSE IF rpc.t = "error" THEN PyNone
  ELSE PyInt(rpc.n)

(* ------------------------- EventScanner -------------------------------- *)
\* mutant: the scanner starts at the last confirmed block
InitialCursor_Lagged(latest) ==
  IF Truthy(latest) THEN latest.n - BLOCK_CONFIRMATIONS ELSE 0

\* `get_latest_block_number() or 0`
InitialCursor(latest) == IF Truthy(latest) THEN latest.n ELSE 0

\* mutant: the scan starts again on the last scanned block
from_block_NoIncrement(last) == last

from_block(last) == last + 1

\* mutant: the confirmation depth is not subtracted
to_block_NoLag(latest_block) == latest_block

to_block(latest_block) == latest_block - BLOCK_CONFIRMATIONS

\* mutant: the empty-range guard is missing
NoConfirmedRange_Never(from, to) == FALSE

\* mutant: the guard lets the empty range from = to + 1 through
NoConfirmedRange_OffByOne(from, to) == from > to + 1

NoConfirmedRange(from, to) == from > to

\* mutant: every answer to the query advances the cursor
CursorAfterQuery_AlwaysAdvance(last, to, reply) == to

\* mutant: BlockNotFound holds the cursor like any other fault
CursorAfterQuery_HoldOnNotFound(last, to, reply) ==
  IF reply.t = "entries" THEN to ELSE last

\* mutant: only a query that found events advances the cursor
CursorAfterQuery_OnlyWhenEvents(last, to, reply) ==
  CASE reply.t = "entries" -> IF reply.entries # <<>> THEN to ELSE last
    [] reply.t = "BlockNotFound" -> to
    [] reply.t = "Exception" -> last

\* mutant: no query moves the cursor
CursorAfterQuery_Never(last, to, reply) == last

\* the cursor after the query of [from, to] was answered by reply
CursorAfterQuery(last, to, reply) ==
  CASE reply.t = "entries" -> to
    [] reply.t = "BlockNotFound" -> to
    [] reply.t = "Exception" -> last

\* the list the query of [from, to] makes scan_for_events return
EventsAfterQuery(reply) ==
  IF reply.t = "entries" THEN reply.entries ELSE <<>>

\* scan_for_events with the cursor at last, the node reporting latest and
\* answering the filter query, when one is issued, with reply
scan_for_events(last, latest, reply) ==
  IF latest = PyNone
  THEN [events |-> <<>>, last_scanned_block |-> last, status |-> "fetch_failed",
        queried |-> {}]
  ELSE LET from == from_block(last)
           to == to_block(latest.n)
       IN IF NoConfirmedRange(from, to)
          THEN [events |-> <<>>, last_scanned_block |-> last, status |-> "waiting",
                queried |-> {}]
          ELSE [events |-> EventsAfterQuery(reply),
                last_scanned_block |-> CursorAfterQuery(last, to, reply),
                status |-> reply.t,
                queried |-> from..to]

(* ------------------------- MockAPIClient ------------------------------- *)
\* mutant: the address is compared without lower-casing it
OnSanctionsList_CaseSensitive(address) == Chars(address) = Lower(SANCTIONED_ADDRESS)

OnSanctionsList(address) == Lower(address) = Lower(SANCTIONED_ADDRESS)

\* response.raise_for_status() raises, or requests.post itself did
RequestFails(api) ==
  IF api.t = "response" THEN api.status >= 400 /\ api.status < 600 ELSE TRUE

\* line 196: a failed request reports the address as sanctioned
FailSafe(failed) == failed

\* line 183: address.lower() raises AttributeError unless address is a str
LowerRaises(address) == address.t # "str"

\* mutant: the endpoint is asked before the hardcoded list is looked at
is_address_sanctioned_ApiFirst(address, api) ==
  [sanctioned |-> OnSanctionsList(address) \/ FailSafe(RequestFails(api)),
   api_called |-> TRUE]

\* is_address_sanctioned: its return value, and whether it posted to the
\* compliance endpoint on the way
is_address_sanctioned(address, api) ==
  IF OnSanctionsList(address)
  THEN [sanctioned |-> TRUE, api_called |-> FALSE]
  ELSE [sanctioned |-> FailSafe(RequestFails(api)), api_called |-> TRUE]

(* ------------------------- TransactionRelayer -------------------------- *)
\* mutant: only a missing nonce is skipped
SkipsEvent_NoMembership(nonce, processed) == nonce = PyNone

SkipsEvent(nonce, processed) == nonce = PyNone \/ nonce \in processed

SenderRejected(sender, api) ==
  ~Truthy(sender) \/ is_address_sanctioned(sender.s, api).sanctioned

MissingCriticalData(recipient, amount) == ~(Truthy(recipient) /\ Truthy(amount))

\* TRUE when the simulated transaction was printed, FALSE when the
\* connector or contract is missing or building the call raised
simulate_send_transaction(web3, contract, raises) ==
  IF ~web3 \/ ~contract THEN FALSE ELSE ~raises

\* mutant: the nonce is never recorded
MarkProcessed_Never(processed, nonce, sent) == processed

\* line 243 runs whatever simulate_send_transaction did
MarkProcessed(processed, nonce, sent) == processed \cup {nonce}

\* process_and_relay on one event: the path taken ("raised" when the call
\* ends with an exception), the new processed set, whether the compliance
\* endpoint was called, whether the submission step ran and whether it
\* relayed
process_and_relay(event, processed, api, web3, contract, raises) ==
  LET a == event.args
      Return(outcome, api_called) ==
        [outcome |-> outcome, processed_nonces |-> processed,
         api_called |-> api_called, submit_called |-> FALSE, sent |-> FALSE]
  IN IF SkipsEvent(a.nonce, processed)
     THEN Return("SkippedDuplicate", FALSE)
     ELSE IF Truthy(a.sender) /\ LowerRaises(a.sender)
     THEN Return("raised", FALSE)
     ELSE IF SenderRejected(a.sender, api)
     THEN Return("RejectedCompliance",
                 Truthy(a.sender) /\ is_address_sanctioned(a.sender.s, api).api_called)
     ELSE IF MissingCriticalData(a.recipient, a.amount)
     THEN Return("RejectedMalformed", is_address_sanctioned(a.sender.s, api).api_called)
     ELSE LET sent == simulate_send_transaction(web3, contract, raises)
          IN [outcome |-> IF sent THEN "Relayed" ELSE "SubmissionFailed",
              processed_nonces |-> MarkProcessed(processed, a.nonce, sent),
              api_called |-> is_address_sanctioned(a.sender.s, api).api_called,
              submit_called |-> TRUE,
              sent |-> sent]

(* ------------------------- BridgeOrchestrator -------------------------- *)
VARIABLES
  is_initialized,       \* BridgeOrchestrator.is_initialized
  source_web3,          \* source_connector.web3 is not None
  source_contract,      \* the scanner's contract handle is not None
  dest_web3,            \* dest_connector.web3 is not None
  dest_contract,        \* the relayer's contract handle is not None
  last_scanned_block,   \* EventScanner.last_scanned_block
  start_block,          \* the cursor EventScanner.__init__ set
  scanned,              \* blocks of the queries that moved the cursor
  processed_nonces,     \* TransactionRelayer.processed_nonces
  pc,                   \* where run() is
  new_events,           \* the events of the batch the for loop has yet to reach
  latest_block,         \* what the last get_latest_block_number() returned
  scan_status,          \* how the last scan ended
  queried,              \* the blocks the last scan put in its filter query
  skipped,              \* blocks passed over by a BlockNotFound scan
  outcome,              \* the path the last process_and_relay took
  compliance,           \* how the last process_and_relay used the compliance API
  api_status,           \* response.status_code of its post, 0 without a response
  batch_outcome,        \* per nonce, the path of its latest call in this batch
  calls,                \* per nonce, simulate_send_transaction calls
  relays                \* per nonce, simulated transactions relayed

vars ==
  <<is_initialized, source_web3, source_contract, dest_web3, dest_contract,
    last_scanned_block, start_block, scanned, processed_nonces, pc, new_events, latest_block, scan_status, queried, skipped, outcome,
    compliance, api_status, batch_outcome, calls, relays>>

\* response.status_code of the reply, 0 when the post was not made or
\* raised before a response came
StatusCode(api_called, api) ==
  IF api_called /\ api.t = "response" THEN api.status ELSE 0

Bump(count, nonce) ==
  [count EXCEPT ![nonce.n] = IF @ < MaxCount THEN @ + 1 ELSE @]

\* mutant: one resolved contract is enough
Initialized_Either(src_contract, dst_contract) == src_contract \/ dst_contract

\* line 296: both contract handles resolved
Initialized(src_contract, dst_contract) == src_contract /\ dst_contract

\* the state BridgeOrchestrator() leaves
Init ==
  \E src_web3 \in BOOLEAN, src_connected \in BOOLEAN,
     dst_web3 \in BOOLEAN, dst_connected \in BOOLEAN, rpc \in RpcReplies :
    \E ok \in {Initialized(get_contract(src_web3, src_connected),
                           get_contract(dst_web3, dst_connected))} :
       /\ is_initialized = ok
       /\ source_web3 = src_web3
       /\ source_contract = get_contract(src_web3, src_connected)
       /\ dest_web3 = dst_web3
       /\ dest_contract = get_contract(dst_web3, dst_connected)
       /\ latest_block = IF ok THEN get_latest_block_number(src_web3, rpc) ELSE PyNone
       /\ last_scanned_block =
            IF ok THEN InitialCursor(get_latest_block_number(src_web3, rpc)) ELSE -1
       /\ start_block =
            IF ok THEN InitialCursor(get_latest_block_number(src_web3, rpc)) ELSE -1
       /\ scanned = {}
       /\ processed_nonces = {}
       /\ pc = "ready"
       /\ new_events = <<>>
       /\ scan_status = "none"
       /\ queried = {}
       /\ skipped = {}
       /\ outcome = "none"
       /\ compliance = "none"
       /\ api_status = 0
       /\ batch_outcome = [n \in NonceValues |-> "none"]
       /\ calls = [n \in NonceValues |-> 0]
       /\ relays = [n \in NonceValues |-> 0]

\* run() up to the loop: returns at once when not initialized
Run ==
  /\ pc = "ready"
  /\ pc' = IF is_initialized THEN "scan" ELSE "returned"
  /\ UNCHANGED <<is_initialized, source_web3, source_contract, dest_web3,
                 dest_contract, last_scanned_block, start_block, scanned,
                 processed_nonces, new_events, latest_block, scan_status,
                 queried, skipped, outcome, compliance, api_status, batch_outcome,
                 calls, relays>>

\* new_events = self.event_scanner.scan_for_events()
Scan ==
  /\ pc = "scan"
  /\ \E rpc \in RpcReplies :
       LET latest == get_latest_block_number(source_web3, rpc)
           lo == from_block(last_scanned_block)
           hi == IF latest = PyNone THEN lo - 1 ELSE to_block(latest.n)
       IN \E reply \in QueryReplies(lo, hi) :
            \E r \in {scan_for_events(last_scanned_block, latest, reply)} :
               /\ new_events' = r.events
               /\ last_scanned_block' = r.last_scanned_block
               /\ latest_block' = latest
               /\ scan_status' = r.status
               /\ queried' = r.queried
               /\ skipped' = IF r.status = "BlockNotFound"
                             THEN skipped \cup r.queried ELSE skipped
               /\ scanned' = IF r.status \in {"entries", "BlockNotFound"}
                             THEN scanned \cup r.queried ELSE scanned
               /\ pc' = IF r.events # <<>> THEN "process" ELSE "sleep"
  /\ outcome' = "none"
  /\ compliance' = "none"
  /\ api_status' = 0
  /\ batch_outcome' = [n \in NonceValues |-> "none"]
  /\ UNCHANGED <<is_initialized, source_web3, source_contract, dest_web3,
                 dest_contract, start_block, processed_nonces, calls, relays>>

\* mutant: the loop takes the last event of the batch first
NextEvent_Last(events) == events[Len(events)]

\* `for event in new_events`: the event the loop takes next
NextEvent(events) == Head(events)

\* self.tx_relayer.process_and_relay(event) for the next event of the batch;
\* an exception it raises is caught at line 329 and ends the loop
Process ==
  /\ pc = "process"
  /\ new_events # <<>>
  /\ \E api \in ApiReplies, raises \in BOOLEAN :
       \E r \in {process_and_relay(NextEvent(new_events), processed_nonces, api,
                                    dest_web3, dest_contract, raises)} :
          /\ processed_nonces' = r.processed_nonces
          /\ outcome' = r.outcome
          /\ batch_outcome' =
               IF NextEvent(new_events).args.nonce = PyNone THEN batch_outcome
               ELSE [batch_outcome EXCEPT ![NextEvent(new_events).args.nonce.n] = r.outcome]
          /\ compliance' = IF ~r.api_called THEN "not_called"
                           ELSE IF RequestFails(api) THEN "failed" ELSE "passed"
          /\ api_status' = StatusCode(r.api_called, api)
          /\ calls' = IF r.submit_called THEN Bump(calls, NextEvent(new_events).args.nonce) ELSE calls
          /\ relays' = IF r.sent THEN Bump(relays, NextEvent(new_events).args.nonce) ELSE relays
          /\ pc' = IF r.outcome = "raised" THEN "crashed"
                   ELSE IF Tail(new_events) = <<>> THEN "sleep" ELSE "process"
  /\ new_events' = Tail(new_events)
  /\ UNCHANGED <<is_initialized, source_web3, source_contract, dest_web3,
                 dest_contract, last_scanned_block, start_block, scanned,
                 latest_block, scan_status, queried, skipped>>

\* time.sleep(poll_interval) returns and the loop starts its next cycle
Sleep ==
  /\ pc = "sleep"
  /\ pc' = "scan"
  /\ UNCHANGED <<is_initialized, source_web3, source_contract, dest_web3,
                 dest_contract, last_scanned_block, start_block, scanned,
                 processed_nonces, new_events, latest_block, scan_status,
                 queried, skipped, outcome, compliance, api_status, batch_outcome,
                 calls, relays>>

\* KeyboardInterrupt is raised inside simulate_send_transaction, whose
\* `except Exception` does not catch it: TRUE when the banner of line 269
\* was written before it, which takes the connector and the contract
BannerWritten(web3, contract, printed) == web3 /\ contract /\ printed

\* KeyboardInterrupt reaches the try block of run() from a call that has
\* changed nothing this model records: the scan's query, the compliance
\* request, the checks of process_and_relay, the sleep
InterruptElsewhere ==
  /\ pc \in {"scan", "process", "sleep"}
  /\ pc' = "stopped"
  /\ UNCHANGED <<is_initialized, source_web3, source_contract, dest_web3,
                 dest_contract, last_scanned_block, start_block, scanned,
                 processed_nonces, new_events, latest_block, scan_status,
                 queried, skipped, outcome, compliance, api_status, batch_outcome,
                 calls, relays>>

\* KeyboardInterrupt reaches the try block of run() from inside the
\* simulate_send_transaction call of line 240: the call was made, the
\* banner may have been written, and line 243 is never reached
InterruptInSubmission ==
  /\ pc = "process"
  /\ new_events # <<>>
  /\ \E api \in ApiReplies, printed \in BOOLEAN :
       \E r \in {process_and_relay(NextEvent(new_events), processed_nonces, api,
                                    dest_web3, dest_contract, FALSE)} :
          /\ r.submit_called
          /\ calls' = Bump(calls, NextEvent(new_events).args.nonce)
          /\ relays' = IF BannerWritten(dest_web3, dest_contract, printed)
                       THEN Bump(relays, NextEvent(new_events).args.nonce)
                       ELSE relays
          /\ compliance' = IF r.api_called THEN "passed" ELSE "not_called"
          /\ api_status' = StatusCode(r.api_called, api)
  /\ outcome' = "interrupted"
  /\ batch_outcome' =
       [batch_outcome EXCEPT ![NextEvent(new_events).args.nonce.n] = "interrupted"]
  /\ new_events' = Tail(new_events)
  /\ pc' = "stopped"
  /\ UNCHANGED <<is_initialized, source_web3, source_contract, dest_web3,
                 dest_contract, last_scanned_block, start_block, scanned,
                 processed_nonces, latest_block, scan_status, queried, skipped>>

\* the cancellation signal, wherever in a cycle it arrives
Interrupt == InterruptElsewhere \/ InterruptInSubmission

Next == Run \/ Scan \/ Process \/ Sleep \/ Interrupt

Spec == Init /\ [][Next]_vars

(* ------------------------- steps and abbreviations --------------------- *)
\* a step that is one call of process_and_relay, on Head(new_events)
ProcessStep == pc = "process" /\ pc' # "stopped"

\* a step that is one call of scan_for_events
ScanStep == pc = "scan" /\ pc' # "stopped"

Rejections == {"RejectedCompliance", "RejectedMalformed"}

NoSubmission == calls' = calls /\ relays' = relays

(* ------------------------- C1 ------------------------------------------ *)
\* C1: once an event carrying nonce n has been relayed, every later
\* process_and_relay call on an event carrying n takes the SkippedDuplicate
\* path and makes no submission call, and no nonce is relayed twice.
C1_NoReprocess ==
  [][ProcessStep =>
       /\ \A n \in NonceValues :
            Head(new_events).args.nonce = PyInt(n) /\ relays[n] >= 1
              => outcome' = "SkippedDuplicate" /\ NoSubmission
       /\ \A n \in NonceValues : relays'[n] <= 1]_vars

\* a relayed nonce came back in the same batch and was skipped
C1_Witness ==
  \E n \in NonceValues : relays[n] = 1 /\ batch_outcome[n] = "SkippedDuplicate"

(* ------------------------- C2 ------------------------------------------ *)
\* C2: when the submission step faults, the outcome is SubmissionFailed and
\* the nonce of the event is not added to processed_nonces.
C2_FailedSubmissionNotMarked ==
  \A n \in NonceValues :
    batch_outcome[n] = "SubmissionFailed" => PyInt(n) \notin processed_nonces

(* ------------------------- C3 ------------------------------------------ *)
\* C3: last_scanned_block never decreases, whatever a scan reads as the
\* latest block and however it ends.
C3_CursorMonotone == [][last_scanned_block' >= last_scanned_block]_vars

\* after the cursor moved past a range, the node reported a latest block
\* below the cursor
C3_Witness ==
  /\ skipped # {}
  /\ scan_status = "waiting"
  /\ latest_block # PyNone
  /\ latest_block.n < last_scanned_block

(* ------------------------- C4 ------------------------------------------ *)
\* C4: a scan that read latest block L queries no block above L - 6, its
\* range ends exactly at L - 6, and every event it returns is of a block
\* at or below L - 6.
C4_ConfirmationLag ==
  queried # {} =>
    /\ latest_block.n - BLOCK_CONFIRMATIONS \in queried
    /\ \A b \in queried : b <= latest_block.n - BLOCK_CONFIRMATIONS
    /\ \A i \in DOMAIN new_events :
         new_events[i].blockNumber <= latest_block.n - BLOCK_CONFIRMATIONS

\* a returned event sits exactly on the last confirmed block
C4_Witness ==
  /\ scan_status = "entries"
  /\ new_events # <<>>
  /\ pc = "process"
  /\ Head(new_events).blockNumber = latest_block.n - BLOCK_CONFIRMATIONS

(* ------------------------- C5 ------------------------------------------ *)
\* the call to the compliance endpoint failed: it was made and brought no
\* response, or a response whose status is not 2xx
CallFailed == compliance' # "not_called" /\ api_status' \notin 200..299

\* C5: when the call to the compliance endpoint fails (timeout, network
\* fault, a status that is not 2xx), process_and_relay takes the
\* RejectedCompliance path, makes no submission call and leaves
\* processed_nonces alone.
C5_FailClosed ==
  [][ProcessStep /\ CallFailed =>
       /\ outcome' = "RejectedCompliance"
       /\ NoSubmission
       /\ processed_nonces' = processed_nonces]_vars

(* ------------------------- C6 ------------------------------------------ *)
\* C6 as stated: whatever path the first event of a nonce took, the next
\* event of the batch with that nonce takes the SkippedDuplicate path.
C6_SecondAlwaysSkipped ==
  [][ProcessStep =>
       \A n \in NonceValues :
         Head(new_events).args.nonce = PyInt(n) /\ batch_outcome[n] # "none"
           => outcome' = "SkippedDuplicate"]_vars

\* C6 amended: in one batch, the event that follows a relayed event of the
\* same nonce takes the SkippedDuplicate path; the event that follows a
\* rejected event of the same nonce does not, it is checked afresh.
C6_SecondSkippedAfterRelay ==
  [][ProcessStep =>
       \A n \in NonceValues :
         Head(new_events).args.nonce = PyInt(n) =>
           /\ batch_outcome[n] = "Relayed" => outcome' = "SkippedDuplicate"
           /\ batch_outcome[n] \in Rejections => outcome' # "SkippedDuplicate"]_vars

\* in one batch, nonce 12 was relayed once and its second event skipped
C6_Witness ==
  /\ batch_outcome[12] = "SkippedDuplicate"
  /\ relays[12] = 1
  /\ calls[12] = 1
  /\ PyInt(12) \in processed_nonces

(* ------------------------- C7 ------------------------------------------ *)
\* C7: run() never stops on the cancellation signal while events of the
\* fetched batch have not been passed to process_and_relay.
C7_NoEventsDropped == pc = "stopped" => new_events = <<>>

(* ------------------------- C8 ------------------------------------------ *)
\* C8: a call that takes the RejectedCompliance or RejectedMalformed path
\* leaves processed_nonces alone and makes no submission call; an event
\* with an absent or denylisted sender is RejectedCompliance, one with the
\* recipient or the amount absent or zero is RejectedMalformed, and the
\* denylisted sender with nonce 7 leaves 7 out of the set.
C8_RejectionMarksNothing ==
  [][ProcessStep =>
       LET a == Head(new_events).args
           fresh == a.nonce # PyNone /\ a.nonce \notin processed_nonces
       IN /\ outcome' \in Rejections =>
               processed_nonces' = processed_nonces /\ NoSubmission
          /\ fresh /\ a.sender \in {PyNone, PyStr(SANCTIONED_ADDRESS), PyStr(DeadLowerCase)}
               => outcome' = "RejectedCompliance"
          /\ fresh /\ a.sender = PyStr(GoodSender) /\ compliance' = "passed"
               /\ (a.recipient = PyNone \/ a.amount = PyInt(0))
               => outcome' = "RejectedMalformed"
          /\ a.nonce = PyInt(7) /\ a.sender = PyStr(SANCTIONED_ADDRESS)
               /\ PyInt(7) \notin processed_nonces
               => PyInt(7) \notin processed_nonces']_vars

\* the denylisted sender's event with nonce 7 was rejected and 7 is not
\* in the set
C8_Witness ==
  /\ batch_outcome[7] = "RejectedCompliance"
  /\ compliance = "not_called"
  /\ outcome = "RejectedCompliance"
  /\ PyInt(7) \notin processed_nonces

(* ------------------------- C9 ------------------------------------------ *)
\* C9: a scan whose latest-block fetch fails, or whose query fails with a
\* fault other than BlockNotFound, returns no events and leaves
\* last_scanned_block alone.
C9_FaultHoldsCursor ==
  [][ScanStep /\ scan_status' \in {"fetch_failed", "Exception"} =>
       /\ new_events' = <<>>
       /\ last_scanned_block' = last_scanned_block
       /\ (scan_status' = "Exception" =>
             \A b \in queried' : b > last_scanned_block')]_vars

\* a query of a confirmed range failed and the range is still ahead of
\* the cursor
C9_Witness ==
  /\ scan_status = "Exception"
  /\ queried # {}
  /\ last_scanned_block + 1 \in queried

(* ------------------------- C10 ----------------------------------------- *)
\* C10: a scan whose query raises BlockNotFound returns no events and sets
\* last_scanned_block to the end of the queried range, and no later scan
\* queries a block of a range passed over this way.
C10_RangeUnavailableAdvances ==
  [][ScanStep =>
       /\ scan_status' = "BlockNotFound" =>
            /\ new_events' = <<>>
            /\ last_scanned_block' = latest_block'.n - BLOCK_CONFIRMATIONS
            /\ last_scanned_block' \in queried'
            /\ \A b \in queried' : b <= last_scanned_block'
       /\ queried' \cap skipped = {}]_vars

\* a later scan queried blocks after a range had been passed over
C10_Witness ==
  /\ skipped # {}
  /\ queried # {}
  /\ scan_status = "entries"
  /\ queried \cap skipped = {}

(* ------------------------- C11 ----------------------------------------- *)
\* C11: a scan that reads latest block L with last_scanned_block + 1 <= L - 6
\* and whose query succeeds queries exactly last_scanned_block + 1 .. L - 6
\* and leaves last_scanned_block = L - 6, with or without events; with
\* latest 100 and the cursor at 50 the range is 51..94 and the cursor 94.
C11_SuccessAdvancesToToBlock ==
  [][ScanStep /\ scan_status' = "entries" =>
       /\ queried' = (last_scanned_block + 1)..(latest_block'.n - BLOCK_CONFIRMATIONS)
       /\ last_scanned_block' = latest_block'.n - BLOCK_CONFIRMATIONS
       /\ last_scanned_block + 1 <= last_scanned_block'
       /\ \A q \in {<<>>, <<[args |-> Args(PyInt(7), PyNone, PyNone, PyInt(0)),
                           blockNumber |-> 60]>>} :
            LET r == scan_for_events(50, PyInt(100), [t |-> "entries", entries |-> q])
            IN r.queried = 51..94 /\ r.last_scanned_block = 94 /\ r.events = q]_vars

\* a query of a confirmed range found no events and the cursor still moved
\* to the end of the range
C11_Witness ==
  /\ scan_status = "entries"
  /\ pc = "sleep"
  /\ outcome = "none"
  /\ queried # {}
  /\ last_scanned_block = latest_block.n - BLOCK_CONFIRMATIONS

(* ------------------------- C12 ----------------------------------------- *)
\* C12: a scan that reads latest block L with last_scanned_block + 1 > L - 6
\* returns no events, issues no query and leaves last_scanned_block alone;
\* so does the scan with the cursor at 94 and latest block 100.
C12_NoConfirmedRangeIsNoOp ==
  [][ScanStep /\ latest_block' # PyNone
       /\ last_scanned_block + 1 > latest_block'.n - BLOCK_CONFIRMATIONS =>
       /\ scan_status' = "waiting"
       /\ new_events' = <<>>
       /\ queried' = {}
       /\ last_scanned_block' = last_scanned_block
       /\ scanned' = scanned
       /\ \A t \in {"entries", "BlockNotFound", "Exception"} :
            LET r == scan_for_events(94, PyInt(100), [t |-> t, entries |-> <<>>])
            IN r.status = "waiting" /\ r.last_scanned_block = 94 /\ r.events = <<>>]_vars

\* the node reported fewer than 6 blocks, so the last confirmed block is
\* negative
C12_Witness ==
  /\ scan_status = "waiting"
  /\ latest_block # PyNone
  /\ latest_block.n - BLOCK_CONFIRMATIONS < 0
  /\ pc = "sleep"

(* ------------------------- C13 ----------------------------------------- *)
\* C13: a nonce is in processed_nonces only if a submission for it was
\* issued and succeeded.
C13_MarkedOnlyIfRelayed ==
  \A n \in NonceValues : PyInt(n) \in processed_nonces => relays[n] >= 1

(* ------------------------- C14 ----------------------------------------- *)
\* C14: once in its loop, run() leaves it only on the cancellation signal:
\* no fault of a cycle, whatever the sender of an event is, ends the loop.
C14_LoopSurvivesFaults ==
  [][(pc \in {"scan", "process", "sleep"}) =>
       (pc' \in {"scan", "process", "sleep", "stopped"})]_vars

(* ------------------------- C15 ----------------------------------------- *)
\* C15: is_initialized holds only if both connectors are live and both
\* contract handles resolved; otherwise run() returns at once, no scan, no
\* process_and_relay call and no submission is made, and neither the
\* cursor nor the processed set comes into being.
C15_InitializationGate ==
  /\ is_initialized =>
       source_web3 /\ source_contract /\ dest_web3 /\ dest_contract
  /\ ~is_initialized =>
       /\ pc \in {"ready", "returned"}
       /\ last_scanned_block = -1
       /\ processed_nonces = {}
       /\ scan_status = "none"
       /\ outcome = "none"
       /\ new_events = <<>>
       /\ \A n \in NonceValues : calls[n] = 0 /\ relays[n] = 0
  /\ pc \notin {"ready", "returned"} => is_initialized

\* run() returned at once: the source is live, the destination is not
C15_Witness ==
  /\ pc = "returned"
  /\ ~is_initialized
  /\ source_contract
  /\ ~dest_contract

(* ------------------------- C16 ----------------------------------------- *)
\* C16: the for loop passes the events of the batch to process_and_relay
\* one at a time in the order scan_for_events returned them, each call
\* ending before the next begins; a scan starts and the sleep starts only
\* when no event of the batch is left.
C16_SequentialInOrder ==
  [][/\ ProcessStep =>
          /\ new_events' = Tail(new_events)
          /\ \E api \in ApiReplies, raises \in BOOLEAN :
               \E r \in {process_and_relay(Head(new_events), processed_nonces, api,
                                            dest_web3, dest_contract, raises)} :
                  outcome' = r.outcome /\ processed_nonces' = r.processed_nonces
     /\ pc' \in {"scan", "sleep"} => new_events' = <<>>
     /\ ScanStep => new_events = <<>>
     /\ pc = "sleep" /\ pc' # "stopped" => pc' = "scan"]_vars

\* the first of two events was relayed and the second, of another nonce
\* and a later block, is the one left
C16_Witness ==
  /\ pc = "process"
  /\ Len(new_events) = 1
  /\ outcome = "Relayed"
  /\ batch_outcome[7] = "Relayed"
  /\ Head(new_events).args.nonce = PyInt(12)
  /\ Head(new_events).blockNumber = last_scanned_block

(* ------------------------- C17 ----------------------------------------- *)
\* C17: the checks run in the order nonce, compliance, well-formedness: an
\* event without a nonce or with a processed nonce is SkippedDuplicate
\* with no compliance call; an event with an absent or denylisted sender
\* is RejectedCompliance without a call to the endpoint, and one whose
\* endpoint call fails is RejectedCompliance, whatever its recipient and
\* amount are.
C17_CheckOrder ==
  [][ProcessStep =>
       LET a == Head(new_events).args
           fresh == a.nonce # PyNone /\ a.nonce \notin processed_nonces
       IN /\ ~fresh => outcome' = "SkippedDuplicate" /\ compliance' = "not_called"
          /\ fresh /\ a.sender \in {PyNone, PyStr(SANCTIONED_ADDRESS), PyStr(DeadLowerCase)}
               => outcome' = "RejectedCompliance" /\ compliance' = "not_called"
          /\ fresh /\ compliance' = "failed" => outcome' = "RejectedCompliance"
          /\ outcome' = "RejectedMalformed" => compliance' = "passed"
          /\ outcome' \in {"Relayed", "SubmissionFailed"} => compliance' = "passed"]_vars

\* the denylisted sender of an event without recipient and amount was
\* rejected on compliance, with no call to the endpoint
C17_Witness ==
  /\ outcome = "RejectedCompliance"
  /\ compliance = "not_called"
  /\ batch_outcome[7] = "none"
  /\ batch_outcome[12] = "RejectedCompliance"

(* ------------------------- C18 ----------------------------------------- *)
\* C18: the ranges of the scans that moved the cursor are disjoint and
\* contiguous: each starts right after the cursor the one before left, no
\* block is in two of them, and no returned event is of a block that an
\* earlier such scan covered.
C18_NoReEmission ==
  [][ScanStep /\ scan_status' \in {"entries", "BlockNotFound"} =>
       /\ queried' = (last_scanned_block + 1)..last_scanned_block'
       /\ queried' \cap scanned = {}
       /\ scanned = (start_block + 1)..last_scanned_block
       /\ scanned' = (start_block + 1)..last_scanned_block'
       /\ \A i \in DOMAIN new_events' : new_events'[i].blockNumber \notin scanned]_vars

\* a second scan moved the cursor and returned an event of its own range
C18_Witness ==
  /\ scan_status = "entries"
  /\ scanned # queried
  /\ queried # {}
  /\ new_events # <<>>
  /\ Head(new_events).blockNumber \in queried

(* ------------------------- C19 ----------------------------------------- *)
\* the scanner starts with last_scanned_block at the latest block H the
\* node reports at construction (0 when the fetch fails), the confirmation
\* depth not subtracted; no scan queries a block <= H, and the first query
\* starts at H + 1 and is issued only once the latest block is >= H + 1 + 6
StartsAtLatest ==
  /\ pc = "ready" /\ is_initialized =>
       /\ last_scanned_block = start_block
       /\ start_block = IF latest_block = PyNone THEN 0 ELSE latest_block.n
  /\ \A b \in queried : b > start_block
  /\ queried # {} => latest_block.n >= start_block + 1 + BLOCK_CONFIRMATIONS
  /\ queried # {} /\ scanned \subseteq queried => start_block + 1 \in queried
  /\ is_initialized /\ scanned = {} => last_scanned_block = start_block

\* C19 as stated: the scanner starts at the latest block as above, and
\* until a scan first moves the cursor last_scanned_block is above the last
\* confirmed block of every latest block read.
C19_LagFailsUntilFirstAdvance ==
  /\ StartsAtLatest
  /\ is_initialized /\ scanned = {} /\ latest_block # PyNone =>
       last_scanned_block > latest_block.n - BLOCK_CONFIRMATIONS

\* C19 amended: the scanner starts at the latest block as above; at
\* construction last_scanned_block = H is above H - 6; until a scan first
\* moves the cursor, a scan that finds no confirmed range has read a latest
\* block <= H + 6 (last_scanned_block >= latest - 6, equal at H + 6), and
\* a scan reads a latest block >= H + 1 + 6 exactly when it issues a query.
C19_InitialCursor ==
  /\ StartsAtLatest
  /\ is_initialized /\ pc = "ready" /\ latest_block # PyNone =>
       last_scanned_block > latest_block.n - BLOCK_CONFIRMATIONS
  /\ is_initialized /\ scanned = {} /\ scan_status = "waiting" =>
       /\ last_scanned_block >= latest_block.n - BLOCK_CONFIRMATIONS
       /\ queried = {}
  /\ is_initialized /\ scanned = {} /\ scan_status \in {"waiting", "Exception"} =>
       (queried # {} <=> latest_block.n >= start_block + 1 + BLOCK_CONFIRMATIONS)

\* the scanner started at block 1; its first query, of block 2 alone,
\* failed, so the cursor is still 1 and is not above the last confirmed
\* block
C19_Witness ==
  /\ start_block = 1
  /\ queried = {2}
  /\ scanned = {}
  /\ scan_status = "Exception"
  /\ last_scanned_block = 1
  /\ last_scanned_block <= latest_block.n - BLOCK_CONFIRMATIONS

(* ------------------------- C20 ----------------------------------------- *)
\* run() enters its loop once called, and time.sleep(poll_interval) returns;
\* that the scans and the process calls go on is what the claim assumes,
\* and the interrupt is under no obligation to come
LiveSpec ==
  Spec /\ WF_vars(Run) /\ WF_vars(Sleep)

\* a cycle's scan that read a latest block of b + 6 or more and whose
\* query, if one was due, succeeded
GoodScan(b) ==
  /\ ScanStep
  /\ latest_block' # PyNone
  /\ latest_block'.n >= b + BLOCK_CONFIRMATIONS
  /\ scan_status' \in {"entries", "waiting"}

\* C20: if the cycles go on for ever and, for a block b above the initial
\* cursor, scans that read a latest block >= b + 6 and whose fetch and
\* query succeed happen infinitely often, then last_scanned_block is
\* eventually >= b; and when the cycles go on for ever every event of a
\* returned batch is eventually taken off the batch by a process step.
C20_ScanProgress ==
  /\ \A b \in 1..(MaxBlock - BLOCK_CONFIRMATIONS) :
       (start_block < b /\ []<><<GoodScan(b)>>_vars) => <>(last_scanned_block >= b)
  /\ \A k \in 1..MaxBatch :
       ([]<><<ScanStep>>_vars) => (Len(new_events) = k ~> Len(new_events) = k - 1)

\* the cursor moved above the initial cursor by a query that succeeded and
\* the events it returned have all been processed
C20_Witness ==
  /\ last_scanned_block > start_block
  /\ scan_status = "entries"
  /\ new_events = <<>>
  /\ outcome # "none"
  /\ pc = "sleep"
====
